---- MODULE Spec2Model ----
(***************************************************************************)
(* Submission queue and credit ledger of the vamasubmissions backend.      *)
(*                                                                         *)
(* The state is the content of the tables submissions, users (credits and  *)
(* tier), credit_transactions, votes and user_vote_allowance.  Every       *)
(* service function / endpoint is one action of Next (serial executions,   *)
(* specifications Spec, SpecPaid, SpecLife).  SpecConc runs the vote       *)
(* handlers of two database sessions step by step (load, commit, reorder)  *)
(* and SpecStep the lifecycle handlers commit by commit, so that their     *)
(* interleavings are explored; in SpecFail a request may also end between  *)
(* two of its commits.  SpecEdit, SpecPatron and SpecMonth are serial      *)
(* executions for updates in the free lane, for the requests of a caller   *)
(* who is no admin, and for votes held across a change of month;           *)
(* SpecAllowance and SpecCharge interleave the allowance lookups and the   *)
(* charges of two sessions.                                                *)
(***************************************************************************)
EXTENDS Integers, Sequences, FiniteSets

(* ------------------------------ bounds -------------------------------- *)
\* number of submission rows ever created
MaxSubs == 3
\* credits held by each paid-tier user in the initial state
InitCredits == 4
\* value of the configuration key tier1_votes_per_month
ConfigVotesPerMonth == 1
\* number of concurrent database sessions in SpecConc
MaxSessions == 2
\* SpecConc stops casting on a submission whose vote_count reached this value
\* (lost updates let the counter grow without limit)
MaxVoteCount == 2
\* number of submission rows created in SpecStep and SpecFail
MaxStepSubs == 2
\* SpecFail lets no request fail once the ledger holds this many entries
\* (every failed and repeated cancellation appends a refund)
MaxLedger == 4
\* ledger entries up to which an update request is followed
MaxChargeLedger == 6

(* ------------------------------ users --------------------------------- *)
\* users 1 and 2 are tier 1 patrons (free lane), user 3 is a tier 2 admin
\* (paid lane)
Users == 1..3
SubIds == 1..MaxSubs
Sessions == 1..MaxSessions
None == "None"
NoPos == 0

VARIABLES submissions, credits, ledger, votes, allowance, tier, pc, loc,
          calendar, config

\* allowance holds the user_vote_allowance rows of the current month;
\* calendar holds the current month, the rows of the month before it and the
\* Votes still held that were cast in that month (Vote.created_at)
\* config holds the system_config values the handlers read

vars == <<submissions, credits, ledger, votes, allowance, tier, pc, loc, calendar,
          config>>

role(u) == IF u = 3 THEN "admin" ELSE "patron"

\* mutant: every authenticated user passes the admin check
is_admin_everyone(u) == TRUE

is_admin(u) == role(u) \in {"admin", "creator"}

max_credits(u) == 0

credits_per_month(u) == 0

Min(a, b) == IF a < b THEN a ELSE b
\* mutant: the floor of a decrement is not applied
Max_without_floor(a, b) == b

Max(a, b) == IF a > b THEN a ELSE b

(* --------------------------- submissions ------------------------------ *)
Ids == DOMAIN submissions

get_submission_by_id(sid) == sid \in Ids

\* mutant: the cost leaves the modifiers out
total_cost_without_modifiers(large, double) == 1

total_cost(large, double) ==
    1 + (IF large THEN 1 ELSE 0) + (IF double THEN 1 ELSE 0)

\* mutant: a submission can be edited as long as it can be cancelled
can_edit_while_in_progress(s) == s.status \in {"pending", "in_progress"}

can_edit(s) == s.status = "pending"

\* mutant: cancel is accepted from every status
can_cancel_any_status(s) == TRUE

can_cancel(s) == s.status \in {"pending", "in_progress"}

Pending(subs, qt) ==
    {i \in DOMAIN subs : subs[i].queue_type = qt /\ subs[i].status = "pending"}

\* mutant: the count filters on the wrong status
count_in_progress_submissions(u) ==
    Cardinality({i \in Ids : submissions[i].user_id = u
                             /\ submissions[i].status = "in_progress"})

get_pending_submissions_count(u) ==
    Cardinality({i \in Ids : submissions[i].user_id = u
                             /\ submissions[i].status = "pending"})

SetMax(S) == CHOOSE x \in S : \A y \in S : y <= x

\* mutant: a new submission is put at the front of its lane
get_next_queue_position_front(qt) == 1

get_next_queue_position(qt) ==
    LET P == {submissions[i].queue_position : i \in Pending(submissions, qt)} \ {NoPos}
    IN  (IF P = {} THEN 0 ELSE SetMax(P)) + 1

\* mutant: the paid lane lists the most expensive submission first
OrderBefore_paid_by_cost(subs, qt, a, b) ==
    IF qt = "paid"
    THEN \/ subs[a].credit_cost > subs[b].credit_cost
         \/ /\ subs[a].credit_cost = subs[b].credit_cost
            /\ subs[a].submitted_at < subs[b].submitted_at
    ELSE \/ subs[a].vote_count > subs[b].vote_count
         \/ /\ subs[a].vote_count = subs[b].vote_count
            /\ subs[a].submitted_at < subs[b].submitted_at

\* mutant: the free lane is listed first-in-first-out like the paid lane
OrderBefore_free_fifo(subs, qt, a, b) ==
    subs[a].submitted_at < subs[b].submitted_at

\* ORDER BY of reorder_queue: a precedes b in the lane's listing
OrderBefore(subs, qt, a, b) ==
    IF qt = "paid"
    THEN subs[a].submitted_at < subs[b].submitted_at
    ELSE \/ subs[a].vote_count > subs[b].vote_count
         \/ /\ subs[a].vote_count = subs[b].vote_count
            /\ subs[a].submitted_at < subs[b].submitted_at

\* mutant: the renumbering is not scoped to the lane it was asked for
reorder_queue_all_lanes(subs, qt) ==
    [i \in DOMAIN subs |->
        IF subs[i].status = "pending"
        THEN [subs[i] EXCEPT !.queue_position =
                 1 + Cardinality({j \in Pending(subs, subs[i].queue_type) :
                                     OrderBefore(subs, subs[i].queue_type, j, i)})]
        ELSE subs[i]]

\* enumerate(submissions, start=1) over the ordered listing
reorder_queue(subs, qt) ==
    [i \in DOMAIN subs |->
        IF i \in Pending(subs, qt)
        THEN [subs[i] EXCEPT !.queue_position =
                 1 + Cardinality({j \in Pending(subs, qt) : OrderBefore(subs, qt, j, i)})]
        ELSE subs[i]]

(* ------------------------------ ledger -------------------------------- *)
Transaction(u, amount, type, sid) ==
    [user_id |-> u, amount |-> amount, transaction_type |-> type, submission_id |-> sid]

\* mutant: the amount of a charge is stored with a positive sign
spend_credits_positive(l, u, amount, type, sid) ==
    Append(l, Transaction(u, amount, type, sid))

\* mutant: a credit is booked by rewriting the newest transaction
add_credits_overwrites_last(l, u, amount, type, sid) ==
    IF l = <<>>
    THEN <<Transaction(u, amount, type, sid)>>
    ELSE [l EXCEPT ![Len(l)] = Transaction(u, amount, type, sid)]

add_credits(l, u, amount, type, sid) == Append(l, Transaction(u, amount, type, sid))

spend_credits(l, u, amount, type, sid) == Append(l, Transaction(u, -amount, type, sid))

refund_credits(l, u, amount, sid) == add_credits(l, u, amount, "refund", sid)

(* ------------------------------- Init --------------------------------- *)
\* what the query for (user, month) finds: the first matching row and the
\* number of matching rows
NoAllowance == [exists |-> FALSE, votes_available |-> 0, votes_used |-> 0, rows |-> 0]

IdleLoc == [op |-> None, user |-> 0, sid |-> 0, vote_count |-> 0, votes_used |-> 0]

Init ==
    /\ submissions = <<>>
    /\ tier = [u \in Users |-> IF u \in {1, 2} THEN 1 ELSE 2]
    /\ credits = [u \in Users |-> IF u \in {1, 2} THEN 0 ELSE InitCredits]
    /\ ledger = <<Transaction(3, InitCredits, "monthly_refresh", 0)>>
    /\ votes = [u \in Users |-> [s \in SubIds |-> 0]]
    /\ allowance = [u \in Users |-> NoAllowance]
    /\ pc = [x \in Sessions |-> "idle"]
    /\ loc = [x \in Sessions |-> IdleLoc]
    /\ calendar = [month |-> "first",
                   allowance |-> [u \in Users |-> NoAllowance],
                   votes |-> [u \in Users |-> [s \in SubIds |-> 0]]]
    /\ config = [tier1_votes_per_month |-> ConfigVotesPerMonth]

(* ------------------------ submission lifecycle ------------------------ *)
create_submission(u, large, double) ==
    LET credit_cost == total_cost(large, double)
        queue_type == IF tier[u] > 1 THEN "paid" ELSE "free"
        queue_position == get_next_queue_position(queue_type)
        sid == Len(submissions) + 1
        submission == [user_id |-> u, status |-> "pending", queue_type |-> queue_type,
                       queue_position |-> queue_position, vote_count |-> 0,
                       credit_cost |-> credit_cost, is_large_image_set |-> large,
                       is_double_character |-> double, submitted_at |-> sid]
    IN  /\ Len(submissions) < MaxSubs
        /\ tier[u] = 1 => get_pending_submissions_count(u) < 1
        /\ tier[u] > 1 => credits[u] >= credit_cost
        /\ submissions' = Append(submissions, submission)
        /\ IF tier[u] > 1
           THEN /\ credits' = [credits EXCEPT ![u] = @ - credit_cost]
                /\ ledger' = spend_credits(ledger, u, credit_cost, "submission_cost", sid)
           ELSE UNCHANGED <<credits, ledger>>
        /\ UNCHANGED <<votes, allowance, tier, calendar, config, pc, loc>>

\* lines 213-225: the modifier flags after the optional arguments are applied
new_flag(old, arg) == IF arg = None THEN old ELSE arg = "True"

\* mutant: an updated submission is queued again at the back of its lane
update_submission_moves_to_back(u, sid, large_in, double_in) ==
    /\ get_submission_by_id(sid)
    /\ LET s == submissions[sid]
           old_cost == s.credit_cost
           large == new_flag(s.is_large_image_set, large_in)
           double == new_flag(s.is_double_character, double_in)
           new_cost == total_cost(large, double)
           credit_diff == new_cost - old_cost
           charged == tier[u] > 1 /\ new_cost # old_cost
       IN  /\ s.user_id = u \/ is_admin(u)
           /\ can_edit(s)
           /\ (charged /\ credit_diff > 0) => credits[u] >= credit_diff
           /\ submissions' = [submissions EXCEPT
                                 ![sid].is_large_image_set = large,
                                 ![sid].is_double_character = double,
                                 ![sid].credit_cost = IF charged THEN new_cost ELSE @,
                                 ![sid].queue_position =
                                     get_next_queue_position(s.queue_type)]
           /\ IF charged
              THEN IF credit_diff > 0
                   THEN /\ credits' = [credits EXCEPT ![u] = @ - credit_diff]
                        /\ ledger' = spend_credits(ledger, u, credit_diff,
                                                   "submission_cost", sid)
                   ELSE /\ credits' = [credits EXCEPT
                                          ![u] = Min(@ - credit_diff, max_credits(u))]
                        /\ ledger' = refund_credits(ledger, u, -credit_diff, sid)
              ELSE UNCHANGED <<credits, ledger>>
    /\ UNCHANGED <<votes, allowance, tier, calendar, config, pc, loc>>

update_submission(u, sid, large_in, double_in) ==
    /\ get_submission_by_id(sid)
    /\ LET s == submissions[sid]
           old_cost == s.credit_cost
           large == new_flag(s.is_large_image_set, large_in)
           double == new_flag(s.is_double_character, double_in)
           new_cost == total_cost(large, double)
           credit_diff == new_cost - old_cost
           charged == tier[u] > 1 /\ new_cost # old_cost
       IN  /\ s.user_id = u \/ is_admin(u)
           /\ can_edit(s)
           /\ (charged /\ credit_diff > 0) => credits[u] >= credit_diff
           /\ submissions' = [submissions EXCEPT
                                 ![sid].is_large_image_set = large,
                                 ![sid].is_double_character = double,
                                 ![sid].credit_cost = IF charged THEN new_cost ELSE @]
           /\ IF charged
              THEN IF credit_diff > 0
                   THEN /\ credits' = [credits EXCEPT ![u] = @ - credit_diff]
                        /\ ledger' = spend_credits(ledger, u, credit_diff,
                                                   "submission_cost", sid)
                   ELSE /\ credits' = [credits EXCEPT
                                          ![u] = Min(@ - credit_diff, max_credits(u))]
                        /\ ledger' = refund_credits(ledger, u, -credit_diff, sid)
              ELSE UNCHANGED <<credits, ledger>>
    /\ UNCHANGED <<votes, allowance, tier, calendar, config, pc, loc>>

\* mutant: the cancelled submission keeps its queue_position
mark_cancelled_keeps_position(s) == [s EXCEPT !.status = "cancelled"]

\* lines 327-330 of cancel_submission
mark_cancelled(s) == [s EXCEPT !.status = "cancelled", !.queue_position = NoPos]

cancel_submission(u, sid) ==
    /\ get_submission_by_id(sid)
    /\ LET s == submissions[sid]
       IN  /\ s.user_id = u \/ is_admin(u)
           /\ can_cancel(s)
           /\ IF tier[u] > 1
              THEN /\ credits' = [credits EXCEPT
                                     ![u] = Min(@ + s.credit_cost, max_credits(u))]
                   /\ ledger' = refund_credits(ledger, u, s.credit_cost, sid)
              ELSE UNCHANGED <<credits, ledger>>
           /\ submissions' = reorder_queue(
                  [submissions EXCEPT ![sid] = mark_cancelled(s)], s.queue_type)
    /\ UNCHANGED <<votes, allowance, tier, calendar, config, pc, loc>>

\* lines 370-378 of complete_submission
mark_completed(s) == [s EXCEPT !.status = "completed", !.queue_position = NoPos]

\* the endpoint admits admins only (get_current_admin_user)
complete_submission(admin, sid) ==
    /\ is_admin(admin)
    /\ get_submission_by_id(sid)
    /\ submissions' = reorder_queue(
           [submissions EXCEPT ![sid] = mark_completed(submissions[sid])],
           submissions[sid].queue_type)
    /\ UNCHANGED <<credits, ledger, votes, allowance, tier, calendar, config, pc, loc>>

start_submission(admin, sid) ==
    /\ is_admin(admin)
    /\ get_submission_by_id(sid)
    /\ submissions[sid].status = "pending"
    /\ submissions' = [submissions EXCEPT ![sid].status = "in_progress"]
    /\ UNCHANGED <<credits, ledger, votes, allowance, tier, calendar, config, pc, loc>>

(* ------------------------------ credits ------------------------------- *)
adjust_user_credits(admin, u, amount) ==
    LET new_credits == Max(0, Min(credits[u] + amount, max_credits(u)))
        actual_change == new_credits - credits[u]
    IN  /\ is_admin(admin)
        /\ ledger' = IF actual_change > 0
                     THEN add_credits(ledger, u, actual_change, "adjustment", 0)
                     ELSE IF actual_change < 0
                          THEN spend_credits(ledger, u, -actual_change, "adjustment", 0)
                          ELSE ledger
        /\ credits' = [credits EXCEPT ![u] = new_credits]
        /\ UNCHANGED <<submissions, votes, allowance, tier, calendar, config, pc, loc>>

refresh_user_credits(u) ==
    LET credits_to_add == credits_per_month(u)
        new_credits == Min(credits[u] + credits_to_add, max_credits(u))
    IN  /\ tier[u] > 1
        /\ IF new_credits > credits[u]
           THEN /\ ledger' = add_credits(ledger, u, new_credits - credits[u],
                                         "monthly_refresh", 0)
                /\ credits' = [credits EXCEPT ![u] = new_credits]
           ELSE UNCHANGED <<credits, ledger>>
        /\ UNCHANGED <<submissions, votes, allowance, tier, calendar, config, pc, loc>>

(* ------------------------------- votes -------------------------------- *)
\* mutant: the remaining votes leave the used ones out
votes_remaining_ignores_used(a) == a.votes_available

votes_remaining(a) == Max(0, a.votes_available - a.votes_used)

get_or_create_vote_allowance(al, u) ==
    IF al[u].exists
    THEN al[u]
    ELSE [exists |-> TRUE, votes_available |-> config.tier1_votes_per_month,
          votes_used |-> 0, rows |-> 1]

\* mutant: the votes table has no unique constraint
no_unique_constraint(v, u, sid) == TRUE

\* UniqueConstraint('user_id', 'submission_id') checked when a Vote is inserted
unique_user_submission_vote(v, u, sid) == v[u][sid] = 0

cast_vote(u, sid) ==
    /\ get_submission_by_id(sid)
    /\ submissions[sid].queue_type = "free"
    /\ submissions[sid].status = "pending"
    /\ submissions[sid].user_id # u
    /\ votes[u][sid] = 0
    /\ LET a == get_or_create_vote_allowance(allowance, u)
       IN  /\ votes_remaining(a) > 0
           /\ unique_user_submission_vote(votes, u, sid)
           /\ votes' = [votes EXCEPT ![u][sid] = @ + 1]
           /\ allowance' = [allowance EXCEPT ![u] = [a EXCEPT !.votes_used = @ + 1]]
           /\ submissions' = reorder_queue(
                  [submissions EXCEPT ![sid].vote_count = @ + 1], "free")
    /\ UNCHANGED <<credits, ledger, tier, calendar, config, pc, loc>>

\* db.delete(vote): a Vote cast in the earlier month is no longer held
vote_deleted(cal, u, sid) == [cal EXCEPT !.votes[u][sid] = 0]

\* mutant: the removal decrements no counter of the submission
remove_vote_keeps_count(u, sid) ==
    /\ sid \in SubIds
    /\ votes[u][sid] > 0
    /\ LET a == get_or_create_vote_allowance(allowance, u)
       IN  /\ allowance' = [allowance EXCEPT
                               ![u] = [a EXCEPT !.votes_used = Max(0, @ - 1)]]
           /\ votes' = [votes EXCEPT ![u][sid] = @ - 1]
           /\ submissions' = submissions
    /\ calendar' = vote_deleted(calendar, u, sid)
    /\ UNCHANGED <<credits, ledger, tier, config, pc, loc>>

remove_vote(u, sid) ==
    /\ sid \in SubIds
    /\ votes[u][sid] > 0
    /\ LET a == get_or_create_vote_allowance(allowance, u)
           decremented == IF get_submission_by_id(sid)
                          THEN [submissions EXCEPT ![sid].vote_count = Max(0, @ - 1)]
                          ELSE submissions
       IN  /\ allowance' = [allowance EXCEPT
                               ![u] = [a EXCEPT !.votes_used = Max(0, @ - 1)]]
           /\ votes' = [votes EXCEPT ![u][sid] = @ - 1]
           /\ submissions' = IF get_submission_by_id(sid)
                                /\ submissions[sid].queue_type = "free"
                             THEN reorder_queue(decremented, "free")
                             ELSE decremented
    /\ calendar' = vote_deleted(calendar, u, sid)
    /\ UNCHANGED <<credits, ledger, tier, config, pc, loc>>

(* ------------------- vote handlers, step by step --------------------- *)
\* cast_vote lines 73-122: the rows are loaded into the session and checked;
\* a missing allowance row is inserted and committed
cast_vote_load(x, u, sid) ==
    /\ pc[x] = "idle"
    /\ get_submission_by_id(sid)
    /\ submissions[sid].queue_type = "free"
    /\ submissions[sid].status = "pending"
    /\ submissions[sid].user_id # u
    /\ votes[u][sid] = 0
    /\ LET a == get_or_create_vote_allowance(allowance, u)
       IN  /\ votes_remaining(a) > 0
           /\ allowance' = [allowance EXCEPT ![u] = a]
           /\ loc' = [loc EXCEPT ![x] = [op |-> "cast", user |-> u, sid |-> sid,
                                         vote_count |-> submissions[sid].vote_count,
                                         votes_used |-> a.votes_used]]
    /\ pc' = [pc EXCEPT ![x] = "cast_commit"]
    /\ UNCHANGED <<submissions, credits, ledger, votes, tier, calendar, config>>

\* cast_vote lines 124-137: the Vote is inserted and the counters are written
\* from the values the session loaded; a duplicate Vote makes the commit fail
cast_vote_commit(x) ==
    /\ pc[x] = "cast_commit"
    /\ LET u == loc[x].user
           sid == loc[x].sid
       IN  IF unique_user_submission_vote(votes, u, sid)
           THEN /\ votes' = [votes EXCEPT ![u][sid] = @ + 1]
                /\ allowance' = [allowance EXCEPT
                                    ![u].votes_used = loc[x].votes_used + 1]
                /\ submissions' = [submissions EXCEPT
                                      ![sid].vote_count = loc[x].vote_count + 1]
                /\ pc' = [pc EXCEPT ![x] = "cast_reorder"]
                /\ UNCHANGED loc
           ELSE /\ pc' = [pc EXCEPT ![x] = "idle"]
                /\ loc' = [loc EXCEPT ![x] = IdleLoc]
                /\ UNCHANGED <<votes, allowance, submissions>>
    /\ UNCHANGED <<credits, ledger, tier, calendar, config>>

\* cast_vote lines 140-144
cast_vote_reorder(x) ==
    /\ pc[x] = "cast_reorder"
    /\ submissions' = reorder_queue(submissions, "free")
    /\ pc' = [pc EXCEPT ![x] = "idle"]
    /\ loc' = [loc EXCEPT ![x] = IdleLoc]
    /\ UNCHANGED <<credits, ledger, votes, allowance, tier, calendar, config>>

\* remove_vote lines 163-182
remove_vote_load(x, u, sid) ==
    /\ pc[x] = "idle"
    /\ get_submission_by_id(sid)
    /\ votes[u][sid] > 0
    /\ LET a == get_or_create_vote_allowance(allowance, u)
       IN  /\ allowance' = [allowance EXCEPT ![u] = a]
           /\ loc' = [loc EXCEPT ![x] = [op |-> "remove", user |-> u, sid |-> sid,
                                         vote_count |-> submissions[sid].vote_count,
                                         votes_used |-> a.votes_used]]
    /\ pc' = [pc EXCEPT ![x] = "remove_commit"]
    /\ UNCHANGED <<submissions, credits, ledger, votes, tier, calendar, config>>

\* remove_vote lines 178-186
remove_vote_commit(x) ==
    /\ pc[x] = "remove_commit"
    /\ LET u == loc[x].user
           sid == loc[x].sid
       IN  /\ votes' = [votes EXCEPT ![u][sid] = Max(0, @ - 1)]
           /\ allowance' = [allowance EXCEPT
                               ![u].votes_used = Max(0, loc[x].votes_used - 1)]
           /\ submissions' = [submissions EXCEPT
                                 ![sid].vote_count = Max(0, loc[x].vote_count - 1)]
    /\ pc' = [pc EXCEPT ![x] = "remove_reorder"]
    /\ calendar' = vote_deleted(calendar, loc[x].user, loc[x].sid)
    /\ UNCHANGED <<credits, ledger, tier, config, loc>>

\* remove_vote lines 188-191
remove_vote_reorder(x) ==
    /\ pc[x] = "remove_reorder"
    /\ submissions' = IF submissions[loc[x].sid].queue_type = "free"
                      THEN reorder_queue(submissions, "free")
                      ELSE submissions
    /\ pc' = [pc EXCEPT ![x] = "idle"]
    /\ loc' = [loc EXCEPT ![x] = IdleLoc]
    /\ UNCHANGED <<credits, ledger, votes, allowance, tier, calendar, config>>

(* --------------------------- specifications --------------------------- *)
OptBool == {None, "True", "False"}
Amounts == {-1, 1}
PaidUsers == {u \in Users : tier[u] > 1}
FreeUsers == {u \in Users : tier[u] = 1}

\* serial executions of the lifecycle and vote handlers, both lanes
Next ==
    \/ \E u \in Users : create_submission(u, FALSE, FALSE)
    \/ \E u \in Users, sid \in SubIds : cancel_submission(u, sid)
    \/ \E u \in Users, sid \in SubIds : complete_submission(u, sid)
    \/ \E u \in Users, sid \in SubIds : start_submission(u, sid)
    \/ \E u \in Users, sid \in SubIds : cast_vote(u, sid)
    \/ \E u \in Users, sid \in SubIds : remove_vote(u, sid)

Spec == Init /\ [][Next]_vars

\* serial executions of the lifecycle and credit handlers on the paid lane,
\* with every combination of the modifier flags
NextPaid ==
    \/ \E u \in PaidUsers, large \in BOOLEAN, double \in BOOLEAN :
           create_submission(u, large, double)
    \/ \E u \in Users, sid \in SubIds, large_in \in OptBool, double_in \in OptBool :
           update_submission(u, sid, large_in, double_in)
    \/ \E u \in Users, sid \in SubIds : cancel_submission(u, sid)
    \/ \E u \in Users, sid \in SubIds : complete_submission(u, sid)
    \/ \E u \in Users, sid \in SubIds : start_submission(u, sid)
    \/ \E a \in Users, u \in Users, amount \in Amounts : adjust_user_credits(a, u, amount)
    \/ \E u \in Users : refresh_user_credits(u)

SpecPaid == Init /\ [][NextPaid]_vars

\* the vote handlers of MaxSessions sessions interleaved on the free lane
NextConc ==
    \/ \E u \in FreeUsers : create_submission(u, FALSE, FALSE)
    \/ \E x \in Sessions, u \in Users, sid \in SubIds :
           /\ sid \in Ids /\ submissions[sid].vote_count < MaxVoteCount
           /\ cast_vote_load(x, u, sid)
    \/ \E x \in Sessions : cast_vote_commit(x)
    \/ \E x \in Sessions : cast_vote_reorder(x)
    \/ \E x \in Sessions, u \in Users, sid \in SubIds :
           remove_vote_load(x, u, sid)
    \/ \E x \in Sessions : remove_vote_commit(x)
    \/ \E x \in Sessions : remove_vote_reorder(x)

SpecConc == Init /\ [][NextConc]_vars

(* ------------------------------ properties ---------------------------- *)
Lanes == {"paid", "free"}

RECURSIVE SumAmounts(_, _)
SumAmounts(l, u) ==
    IF l = <<>>
    THEN 0
    ELSE (IF Head(l).user_id = u THEN Head(l).amount ELSE 0) + SumAmounts(Tail(l), u)

RECURSIVE VoteRows(_, _)
VoteRows(U, sid) ==
    IF U = {}
    THEN 0
    ELSE LET u == CHOOSE x \in U : TRUE
         IN  votes[u][sid] + VoteRows(U \ {u}, sid)

\* C1: in each lane the queue_position values of the pending submissions are
\* exactly 1..N, N the number of pending submissions of the lane.
DensePositions ==
    \A qt \in Lanes :
        {submissions[i].queue_position : i \in Pending(submissions, qt)}
            = 1..Cardinality(Pending(submissions, qt))

\* C2: every user's cached balance equals the sum of the amounts of the
\* user's credit transactions.
BalanceEqualsLedgerSum ==
    \A u \in Users : credits[u] = SumAmounts(ledger, u)

AllowedTransition(a, b) ==
    \/ a = b
    \/ <<a, b>> \in {<<"pending", "in_progress">>, <<"in_progress", "completed">>,
                     <<"pending", "cancelled">>, <<"in_progress", "cancelled">>}

\* C3: a submission's status changes only along pending -> in_progress,
\* in_progress -> completed, pending -> cancelled, in_progress -> cancelled.
StatusTransitions ==
    [][\A i \in DOMAIN submissions :
          AllowedTransition(submissions[i].status, submissions'[i].status)]_vars

\* C4: a step that cancels submission i raises the owner's balance by
\* min(credit_cost, max_credits - balance), appends the refund entry for the
\* owner with that amount (an entry of amount 0 may be left out) and leaves
\* every other balance alone.
CancelRefundsOwner ==
    [][\A i \in DOMAIN submissions :
          (can_cancel(submissions[i]) /\ submissions'[i].status = "cancelled") =>
              LET o == submissions[i].user_id
                  amount == Min(submissions[i].credit_cost, max_credits(o) - credits[o])
              IN  /\ credits'[o] = credits[o] + amount
                  /\ \/ ledger' = Append(ledger, Transaction(o, amount, "refund", i))
                     \/ amount = 0 /\ ledger' = ledger
                  /\ \A u \in Users \ {o} : credits'[u] = credits[u]]_vars

\* C5: a completed or cancelled submission has no queue_position.
TerminalHasNoPosition ==
    \A i \in Ids :
        submissions[i].status \in {"completed", "cancelled"}
            => submissions[i].queue_position = NoPos

\* a lane was compacted after a cancellation and holds a completed submission
TerminalHasNoPositionWitness ==
    \E i \in Ids, j \in Ids, k \in Ids :
        /\ submissions[i].status = "cancelled"
        /\ submissions[j].status = "completed"
        /\ submissions[k].status = "pending"
        /\ submissions[k].queue_type = submissions[i].queue_type
        /\ k > i
        /\ submissions[k].queue_position = 1

\* C6: a submission has a queue_position (>= 1) if and only if it is pending.
PositionIffPending ==
    \A i \in Ids :
        (submissions[i].status = "pending") <=> (submissions[i].queue_position >= 1)

\* C7: pending paid submissions are ranked first-in-first-out: the earlier
\* submitted_at has the smaller queue_position, whatever the cost or modifiers.
PaidFifo ==
    \A p \in Pending(submissions, "paid"), q \in Pending(submissions, "paid") :
        submissions[p].submitted_at < submissions[q].submitted_at
            => submissions[p].queue_position < submissions[q].queue_position

\* the paid lane was reordered (an earlier paid submission is completed or
\* cancelled) while a cheaper submission is queued ahead of a dearer one
PaidFifoWitness ==
    \E d \in Ids, p \in Ids, q \in Ids :
        /\ submissions[d].queue_type = "paid"
        /\ submissions[d].status \in {"completed", "cancelled"}
        /\ {p, q} \subseteq Pending(submissions, "paid")
        /\ d < p /\ p < q
        /\ submissions[p].credit_cost < submissions[q].credit_cost
        /\ submissions[p].queue_position = 1
        /\ submissions[q].queue_position = 2

\* C8: pending free submissions are ranked by descending vote_count, ties by
\* ascending submitted_at.
FreeByVotes ==
    \A p \in Pending(submissions, "free"), q \in Pending(submissions, "free") :
        (\/ submissions[p].vote_count > submissions[q].vote_count
         \/ /\ submissions[p].vote_count = submissions[q].vote_count
            /\ submissions[p].submitted_at < submissions[q].submitted_at)
            => submissions[p].queue_position < submissions[q].queue_position

\* a later submission with more votes was moved ahead of an earlier one
FreeByVotesWitness ==
    \E p \in Pending(submissions, "free"), q \in Pending(submissions, "free") :
        /\ submissions[q].submitted_at < submissions[p].submitted_at
        /\ submissions[p].vote_count > submissions[q].vote_count
        /\ submissions[p].queue_position = 1
        /\ submissions[q].queue_position = 2

\* C9: at most one Vote per (user, submission) and no Vote of the owner of
\* the submission, also when the casts of one user run concurrently.
OneVotePerPair ==
    \A u \in Users, sid \in SubIds :
        /\ votes[u][sid] <= 1
        /\ (sid \in Ids /\ votes[u][sid] > 0) => submissions[sid].user_id # u

\* two sessions cast the same (user, submission); one has committed its Vote,
\* the other is about to commit
OneVotePerPairWitness ==
    \E x \in Sessions, y \in Sessions :
        /\ pc[x] = "cast_reorder"
        /\ pc[y] = "cast_commit"
        /\ loc[x].user = loc[y].user
        /\ loc[x].sid = loc[y].sid
        /\ votes[loc[x].user][loc[x].sid] = 1

\* C10: vote_count of a submission equals the number of its Vote rows.
VoteCountMatches ==
    \A sid \in Ids : submissions[sid].vote_count = VoteRows(Users, sid)

RECURSIVE VotesCast(_, _)
VotesCast(S, u) ==
    IF S = {}
    THEN 0
    ELSE LET sid == CHOOSE x \in S : TRUE
         IN  votes[u][sid] + VotesCast(S \ {sid}, u)

\* C11: no user exceeds the monthly quota: votes_used <= votes_available and
\* the number of the user's Votes not yet removed is at most votes_available,
\* also when the user's casts on different submissions run concurrently.
QuotaRespected ==
    \A u \in Users :
        allowance[u].exists =>
            /\ allowance[u].votes_used <= allowance[u].votes_available
            /\ VotesCast(SubIds, u) <= allowance[u].votes_available

(* ---------------- lifecycle handlers, commit by commit ----------------- *)
\* requests of the sessions that have passed the checks of create_submission
\* and not yet committed
CreatesInFlight == Cardinality({x \in Sessions : pc[x] = "create_commit"})

\* create_submission lines 92-120: the checks and get_next_queue_position are
\* evaluated on the rows the session reads
create_submission_load(x, u) ==
    LET credit_cost == total_cost(FALSE, FALSE)
        queue_type == IF tier[u] > 1 THEN "paid" ELSE "free"
    IN  /\ pc[x] = "idle"
        /\ Len(submissions) + CreatesInFlight < MaxStepSubs
        /\ tier[u] = 1 => get_pending_submissions_count(u) < 1
        /\ tier[u] > 1 => credits[u] >= credit_cost
        /\ loc' = [loc EXCEPT ![x] = [op |-> "create", user |-> u, sid |-> 0,
                                      credits |-> credits[u],
                                      queue_position |->
                                          get_next_queue_position(queue_type)]]
        /\ pc' = [pc EXCEPT ![x] = "create_commit"]
        /\ UNCHANGED <<submissions, credits, ledger, votes, allowance, tier, calendar, config>>

\* create_submission lines 125-154: the row is inserted with the position the
\* session computed; the balance is written from the value the session loaded;
\* the commit inside spend_credits commits all of it
create_submission_commit(x) ==
    LET u == loc[x].user
        credit_cost == total_cost(FALSE, FALSE)
        queue_type == IF tier[u] > 1 THEN "paid" ELSE "free"
        sid == Len(submissions) + 1
        submission == [user_id |-> u, status |-> "pending", queue_type |-> queue_type,
                       queue_position |-> loc[x].queue_position, vote_count |-> 0,
                       credit_cost |-> credit_cost, is_large_image_set |-> FALSE,
                       is_double_character |-> FALSE, submitted_at |-> sid]
    IN  /\ pc[x] = "create_commit"
        /\ submissions' = Append(submissions, submission)
        /\ IF tier[u] > 1
           THEN /\ credits' = [credits EXCEPT ![u] = loc[x].credits - credit_cost]
                /\ ledger' = spend_credits(ledger, u, credit_cost, "submission_cost", sid)
           ELSE UNCHANGED <<credits, ledger>>
        /\ pc' = [pc EXCEPT ![x] = "idle"]
        /\ loc' = [loc EXCEPT ![x] = IdleLoc]
        /\ UNCHANGED <<votes, allowance, tier, calendar, config>>

\* cancel_submission lines 296-314: the checks
cancel_submission_load(x, u, sid) ==
    /\ pc[x] = "idle"
    /\ get_submission_by_id(sid)
    /\ submissions[sid].user_id = u \/ is_admin(u)
    /\ can_cancel(submissions[sid])
    /\ loc' = [loc EXCEPT ![x] = [op |-> "cancel", user |-> u, sid |-> sid,
                                  credits |-> credits[u], queue_position |-> NoPos]]
    /\ pc' = [pc EXCEPT ![x] = IF tier[u] > 1 THEN "cancel_refund" ELSE "cancel_status"]
    /\ UNCHANGED <<submissions, credits, ledger, votes, allowance, tier, calendar, config>>

\* cancel_submission lines 316-325: the balance and the refund entry are
\* committed by the db.commit() inside add_credits
cancel_submission_refund(x) ==
    LET u == loc[x].user
        sid == loc[x].sid
    IN  /\ pc[x] = "cancel_refund"
        /\ credits' = [credits EXCEPT
                          ![u] = Min(loc[x].credits + submissions[sid].credit_cost,
                                     max_credits(u))]
        /\ ledger' = refund_credits(ledger, u, submissions[sid].credit_cost, sid)
        /\ pc' = [pc EXCEPT ![x] = "cancel_status"]
        /\ UNCHANGED <<submissions, votes, allowance, tier, calendar, config, loc>>

\* cancel_submission lines 327-332: the second commit
cancel_submission_status(x) ==
    /\ pc[x] = "cancel_status"
    /\ submissions' = [submissions EXCEPT ![loc[x].sid] = mark_cancelled(@)]
    /\ pc' = [pc EXCEPT ![x] = "cancel_reorder"]
    /\ UNCHANGED <<credits, ledger, votes, allowance, tier, calendar, config, loc>>

\* cancel_submission line 335: reorder_queue and its commit
cancel_submission_reorder(x) ==
    /\ pc[x] = "cancel_reorder"
    /\ submissions' = reorder_queue(submissions, submissions[loc[x].sid].queue_type)
    /\ pc' = [pc EXCEPT ![x] = "idle"]
    /\ loc' = [loc EXCEPT ![x] = IdleLoc]
    /\ UNCHANGED <<credits, ledger, votes, allowance, tier, calendar, config>>

\* complete_submission lines 362-380: the first commit
complete_submission_commit(x, admin, sid) ==
    /\ pc[x] = "idle"
    /\ is_admin(admin)
    /\ get_submission_by_id(sid)
    /\ submissions' = [submissions EXCEPT ![sid] = mark_completed(@)]
    /\ loc' = [loc EXCEPT ![x] = [op |-> "complete", user |-> admin, sid |-> sid,
                                  credits |-> 0, queue_position |-> NoPos]]
    /\ pc' = [pc EXCEPT ![x] = "complete_reorder"]
    /\ UNCHANGED <<credits, ledger, votes, allowance, tier, calendar, config>>

\* complete_submission line 383: reorder_queue and its commit
complete_submission_reorder(x) ==
    /\ pc[x] = "complete_reorder"
    /\ submissions' = reorder_queue(submissions, submissions[loc[x].sid].queue_type)
    /\ pc' = [pc EXCEPT ![x] = "idle"]
    /\ loc' = [loc EXCEPT ![x] = IdleLoc]
    /\ UNCHANGED <<credits, ledger, votes, allowance, tier, calendar, config>>

\* the request ends with an exception between two commits of a handler
\* (no handler catches it or undoes what it committed before)
request_fails(x) ==
    /\ pc[x] \in {"cancel_status", "cancel_reorder", "complete_reorder"}
    /\ Len(ledger) < MaxLedger
    /\ pc' = [pc EXCEPT ![x] = "idle"]
    /\ loc' = [loc EXCEPT ![x] = IdleLoc]
    /\ UNCHANGED <<submissions, credits, ledger, votes, allowance, tier, calendar, config>>

\* the lifecycle handlers of MaxSessions sessions interleaved
NextStep ==
    \/ \E x \in Sessions, u \in Users : create_submission_load(x, u)
    \/ \E x \in Sessions : create_submission_commit(x)
    \/ \E x \in Sessions, u \in Users, sid \in SubIds : cancel_submission_load(x, u, sid)
    \/ \E x \in Sessions : cancel_submission_refund(x)
    \/ \E x \in Sessions : cancel_submission_status(x)
    \/ \E x \in Sessions : cancel_submission_reorder(x)
    \/ \E x \in Sessions, u \in Users, sid \in SubIds :
           complete_submission_commit(x, u, sid)
    \/ \E x \in Sessions : complete_submission_reorder(x)

SpecStep == Init /\ [][NextStep]_vars

\* the same handlers, where a request may end between its commits
NextFail ==
    \/ NextStep
    \/ \E x \in Sessions : request_fails(x)

SpecFail == Init /\ [][NextFail]_vars

AllIdle == \A x \in Sessions : pc[x] = "idle"

\* C12: once every request has ended (completed or failed), the committed
\* state holds no refund entry for a submission that is still pending or
\* in_progress and no submission_cost entry without its submission.
NoPartialUnit ==
    AllIdle =>
        \A k \in 1..Len(ledger) :
            /\ ledger[k].transaction_type = "refund" =>
                   /\ ledger[k].submission_id \in Ids
                   /\ submissions[ledger[k].submission_id].status
                          \notin {"pending", "in_progress"}
            /\ ledger[k].transaction_type = "submission_cost" =>
                   ledger[k].submission_id \in Ids

\* the lane's pending positions are exactly 1..N and follow the lane's order
LaneInOrder(subs, qt) ==
    /\ {subs[i].queue_position : i \in Pending(subs, qt)}
           = 1..Cardinality(Pending(subs, qt))
    /\ \A p \in Pending(subs, qt), q \in Pending(subs, qt) :
           OrderBefore(subs, qt, p, q) => subs[p].queue_position < subs[q].queue_position

\* C13: the commit that cancels or completes a submission of a lane whose
\* pending positions are 1..N in order leaves them 1..N in order: no committed
\* state between the status change and the recompute shows a gap.
AtomicRecompute ==
    [][\A i \in DOMAIN submissions :
          (/\ LaneInOrder(submissions, submissions[i].queue_type)
           /\ submissions[i].status = "pending"
           /\ submissions'[i].status \in {"completed", "cancelled"})
              => LaneInOrder(submissions', submissions[i].queue_type)]_vars

\* C14: after concurrent operations on a lane have all finished, the lane's
\* pending positions are exactly 1..N, and no two pending submissions of a
\* lane hold the same queue_position.
SerializedPerLane ==
    AllIdle =>
        \A qt \in Lanes :
            /\ \A p \in Pending(submissions, qt), q \in Pending(submissions, qt) :
                   p # q => submissions[p].queue_position # submissions[q].queue_position
            /\ {submissions[i].queue_position : i \in Pending(submissions, qt)}
                   = 1..Cardinality(Pending(submissions, qt))

\* C16: a free-lane (tier 1) user has at most one pending submission in every
\* reachable state, also when the user's creates run concurrently.
OnePendingPerFreeUser ==
    \A u \in Users :
        tier[u] = 1 =>
            Cardinality({i \in Ids : submissions[i].user_id = u
                                     /\ submissions[i].status = "pending"}) <= 1

\* the lifecycle handlers one at a time, both lanes, every combination of the
\* modifier flags
NextLife ==
    \/ \E u \in Users, large \in BOOLEAN, double \in BOOLEAN :
           create_submission(u, large, double)
    \/ \E u \in Users, sid \in SubIds : cancel_submission(u, sid)
    \/ \E u \in Users, sid \in SubIds : complete_submission(u, sid)
    \/ \E u \in Users, sid \in SubIds : start_submission(u, sid)

SpecLife == Init /\ [][NextLife]_vars

\* the step appends a submission of user u
Created(u) ==
    /\ Len(submissions') = Len(submissions) + 1
    /\ submissions'[Len(submissions')].user_id = u

\* C15: while a tier 1 user has a pending submission, no create of that user
\* succeeds: no step adds a submission of the user (the rejected call changes
\* nothing).
TierLimitRejects ==
    [][\A u \in Users :
          (/\ tier[u] = 1
           /\ \E i \in Ids : submissions[i].user_id = u
                             /\ submissions[i].status = "pending")
              => ~Created(u)]_vars

\* a tier 1 user who created again after an earlier submission ended has a
\* pending submission, and the table has room for another row
TierLimitRejectsWitness ==
    \E u \in Users, i \in Ids, j \in Ids :
        /\ tier[u] = 1
        /\ submissions[i].user_id = u /\ submissions[i].status = "pending"
        /\ submissions[j].user_id = u /\ submissions[j].status = "cancelled"
        /\ Len(submissions) < MaxSubs

\* C17: no create of a paid-lane user succeeds while the balance is below the
\* cost 1 + large + double of the request.
InsufficientCreditsRejects ==
    [][\A u \in Users :
          (tier[u] > 1 /\ Created(u)) =>
              LET s == submissions'[Len(submissions')]
              IN  credits[u] >= 1 + (IF s.is_large_image_set THEN 1 ELSE 0)
                                  + (IF s.is_double_character THEN 1 ELSE 0)]_vars

\* a paid-lane user holds 2 credits, less than the cost 3 of a request with
\* both modifiers, after an earlier create, and the table has room
InsufficientCreditsRejectsWitness ==
    \E u \in Users :
        /\ tier[u] > 1
        /\ credits[u] = 2
        /\ credits[u] < total_cost(TRUE, TRUE)
        /\ \E i \in Ids : submissions[i].user_id = u
        /\ Len(submissions) < MaxSubs

\* C18: a create of a paid-lane user appends exactly one ledger entry
\* (submission_cost, -credit_cost, the new submission) and lowers the balance
\* by credit_cost in the same step; the submission is pending in the paid
\* lane.  A create of a free-lane user leaves ledger and balances unchanged.
CreateCharges ==
    [][\A u \in Users :
          Created(u) =>
              LET sid == Len(submissions')
                  s == submissions'[sid]
              IN  /\ s.status = "pending"
                  /\ \A v \in Users \ {u} : credits'[v] = credits[v]
                  /\ IF tier[u] > 1
                     THEN /\ s.queue_type = "paid"
                          /\ ledger' = Append(ledger,
                                 Transaction(u, -s.credit_cost, "submission_cost", sid))
                          /\ credits'[u] = credits[u] - s.credit_cost
                     ELSE /\ s.queue_type = "free"
                          /\ ledger' = ledger
                          /\ credits'[u] = credits[u]]_vars

\* a paid-lane create with both modifiers was charged 3 credits and a
\* free-lane submission was created
CreateChargesWitness ==
    \E i \in Ids, j \in Ids, k \in 1..Len(ledger) :
        /\ submissions[i].queue_type = "paid"
        /\ submissions[i].credit_cost = 3
        /\ ledger[k] = Transaction(submissions[i].user_id, -3, "submission_cost", i)
        /\ submissions[j].queue_type = "free"

\* C19: a step that completes or cancels the pending submission at position k
\* leaves the other pending submissions of the lane at positions 1..N-1, those
\* before k where they were and those after k one position up, and clears the
\* position of the completed or cancelled submission.
CompactionShifts ==
    [][\A i \in DOMAIN submissions :
          (/\ submissions[i].status = "pending"
           /\ submissions'[i].status \in {"completed", "cancelled"})
              => LET qt == submissions[i].queue_type
                     k == submissions[i].queue_position
                     others == Pending(submissions, qt) \ {i}
                 IN  /\ submissions'[i].queue_position = NoPos
                     /\ {submissions'[j].queue_position : j \in others}
                            = 1..Cardinality(others)
                     /\ \A j \in others :
                            submissions'[j].queue_position =
                                IF submissions[j].queue_position < k
                                THEN submissions[j].queue_position
                                ELSE submissions[j].queue_position - 1]_vars

\* remove_vote lines 174-191 as a function of the table: the submission's
\* vote_count is decremented and the free lane reordered
remove_vote_submissions(subs, sid) ==
    LET decremented == [subs EXCEPT ![sid].vote_count = Max(0, @ - 1)]
    IN  IF subs[sid].queue_type = "free"
        THEN reorder_queue(decremented, "free")
        ELSE decremented

\* remove_vote lines 180-182: votes_used after the removal
remove_vote_votes_used(al, u) ==
    Max(0, get_or_create_vote_allowance(al, u).votes_used - 1)

\* C20: a cast followed at once by the removal of the same vote restores
\* vote_count, the Votes, the user's votes_used and every queue_position of
\* the free lane.
CastRemoveRoundTrip ==
    [][\A u \in Users, sid \in DOMAIN submissions :
          votes'[u][sid] = votes[u][sid] + 1 =>
              LET back == remove_vote_submissions(submissions', sid)
              IN  /\ [votes' EXCEPT ![u][sid] = @ - 1] = votes
                  /\ remove_vote_votes_used(allowance', u)
                         = get_or_create_vote_allowance(allowance, u).votes_used
                  /\ back[sid].vote_count = submissions[sid].vote_count
                  /\ \A i \in DOMAIN submissions :
                         submissions[i].queue_type = "free" =>
                             back[i].queue_position = submissions[i].queue_position]_vars

\* the step inserts a Vote of user u for submission sid
VoteAdded(u, sid) == votes'[u][sid] > votes[u][sid]

\* the step deletes a Vote of user u for submission sid
VoteDeleted(u, sid) == votes'[u][sid] < votes[u][sid]

\* C21: a cast takes effect only on a pending free-lane submission that the
\* voter does not own and has not voted for, while the voter has votes
\* remaining; every other cast is rejected and is no step, so Votes,
\* vote_count, votes_used and positions stay as they are.
CastRejects ==
    [][\A u \in Users, sid \in SubIds :
          VoteAdded(u, sid) =>
              /\ sid \in Ids
              /\ submissions[sid].queue_type = "free"
              /\ submissions[sid].status = "pending"
              /\ submissions[sid].user_id # u
              /\ votes[u][sid] = 0
              /\ allowance[u].exists =>
                     allowance[u].votes_used < allowance[u].votes_available]_vars

\* a voter has used up the allowance while another pending free-lane
\* submission of another user, not yet voted for, is in the queue
CastRejectsWitness ==
    \E u \in Users, sid \in Ids, other \in Ids :
        /\ allowance[u].exists
        /\ allowance[u].votes_used = allowance[u].votes_available
        /\ votes[u][other] = 1
        /\ submissions[sid].queue_type = "free"
        /\ submissions[sid].status = "pending"
        /\ submissions[sid].user_id # u
        /\ votes[u][sid] = 0

Updated(i) ==
    \/ submissions'[i].is_large_image_set # submissions[i].is_large_image_set
    \/ submissions'[i].is_double_character # submissions[i].is_double_character
    \/ submissions'[i].credit_cost # submissions[i].credit_cost

\* C24: an update takes effect only on a pending submission; on an
\* in_progress, completed or cancelled submission it is rejected and is no
\* step, so fields, credit_cost, balance and ledger stay as they are.
UpdateOnlyPending ==
    [][\A i \in DOMAIN submissions :
          Updated(i) => submissions[i].status = "pending"]_vars

\* a submission whose cost was raised by an update while it was pending is
\* now in progress, and its owner could pay for a further modifier
UpdateOnlyPendingWitness ==
    \E i \in Ids :
        /\ submissions[i].status = "in_progress"
        /\ Cardinality({k \in 1..Len(ledger) :
               /\ ledger[k].transaction_type = "submission_cost"
               /\ ledger[k].submission_id = i}) = 2
        /\ submissions[i].credit_cost < 3
        /\ credits[submissions[i].user_id] >= 1

\* C25: an update that changes the cost of a paid-lane submission from old to
\* new changes the owner's balance by -(new - old) and appends exactly one
\* ledger entry of type adjustment with that amount for the owner.
UpdateAdjusts ==
    [][\A i \in DOMAIN submissions :
          (/\ submissions[i].queue_type = "paid"
           /\ submissions'[i].credit_cost # submissions[i].credit_cost)
              => LET o == submissions[i].user_id
                     delta == submissions'[i].credit_cost - submissions[i].credit_cost
                 IN  /\ credits'[o] = credits[o] - delta
                     /\ ledger' = Append(ledger, Transaction(o, -delta, "adjustment", i))]_vars

\* C26: in every reachable state every submission has
\* credit_cost = 1 + (1 if is_large_image_set) + (1 if is_double_character).
CostMatchesModifiers ==
    \A i \in Ids :
        submissions[i].credit_cost =
            1 + (IF submissions[i].is_large_image_set THEN 1 ELSE 0)
              + (IF submissions[i].is_double_character THEN 1 ELSE 0)

\* creates in the free lane and updates by every user (owner or admin), one
\* handler at a time
NextEdit ==
    \/ \E u \in FreeUsers, large \in BOOLEAN, double \in BOOLEAN :
           create_submission(u, large, double)
    \/ \E u \in Users, sid \in SubIds, large_in \in OptBool, double_in \in OptBool :
           update_submission(u, sid, large_in, double_in)

SpecEdit == Init /\ [][NextEdit]_vars

\* C27: an update leaves the queue_position of every submission, the updated
\* one and all others in both lanes, as it was.
UpdateKeepsPositions ==
    [][(\E i \in DOMAIN submissions : Updated(i)) =>
          /\ DOMAIN submissions' = DOMAIN submissions
          /\ \A j \in DOMAIN submissions :
                 submissions'[j].queue_position = submissions[j].queue_position]_vars

\* a submission whose cost was raised by an update is queued behind an older
\* pending submission of its lane
UpdateKeepsPositionsWitness ==
    \E i \in Ids, j \in Ids :
        /\ j < i
        /\ submissions[i].queue_type = submissions[j].queue_type
        /\ submissions[i].status = "pending"
        /\ submissions[j].status = "pending"
        /\ submissions[j].queue_position < submissions[i].queue_position
        /\ Cardinality({k \in 1..Len(ledger) :
               /\ ledger[k].transaction_type = "submission_cost"
               /\ ledger[k].submission_id = i}) = 2

\* the step creates or changes a submission of lane qt
LaneAffected(qt) ==
    \/ \E i \in DOMAIN submissions :
           /\ submissions[i].queue_type = qt
           /\ submissions'[i] # submissions[i]
    \/ \E i \in DOMAIN submissions' \ DOMAIN submissions :
           submissions'[i].queue_type = qt

\* C28: a create, cancel, complete, cast or remove that affects a submission
\* of one lane leaves the queue_position and the status of every submission
\* of the other lane unchanged.
LanesIndependent ==
    [][\A qt \in Lanes :
          LaneAffected(qt) =>
              \A j \in DOMAIN submissions :
                  submissions[j].queue_type # qt =>
                      /\ submissions'[j].queue_position = submissions[j].queue_position
                      /\ submissions'[j].status = submissions[j].status]_vars

\* one lane holds a pending submission behind the gap left by a started one
\* while a submission of the other lane, created later, has been cancelled
LanesIndependentWitness ==
    \E i \in Ids, j \in Ids, k \in Ids :
        /\ submissions[i].queue_type = submissions[j].queue_type
        /\ submissions[i].status = "in_progress"
        /\ submissions[j].status = "pending"
        /\ submissions[j].queue_position = 2
        /\ submissions[k].queue_type # submissions[i].queue_type
        /\ submissions[k].status = "cancelled"
        /\ k > j

\* the refund entries the ledger l holds for submission i
Refunds(l, i) ==
    {k \in 1..Len(l) : l[k].transaction_type = "refund" /\ l[k].submission_id = i}

\* C29: a cancel on a completed or already cancelled submission changes
\* nothing: no step marks a completed submission cancelled or books a refund
\* for a completed or cancelled submission, so no submission is refunded twice.
CancelOnlyOnce ==
    /\ [][\A i \in DOMAIN submissions :
             submissions[i].status \in {"completed", "cancelled"} =>
                 /\ Refunds(ledger', i) = Refunds(ledger, i)
                 /\ submissions[i].status = "completed" =>
                        submissions'[i].status = "completed"]_vars
    /\ [](\A i \in Ids : Cardinality(Refunds(ledger, i)) <= 1)

\* a submission was cancelled by a paying caller and refunded once, and
\* another submission is completed
CancelOnlyOnceWitness ==
    \E i \in Ids, j \in Ids :
        /\ submissions[i].status = "cancelled"
        /\ Cardinality(Refunds(ledger, i)) = 1
        /\ submissions[j].status = "completed"

(* ------------------------- permission checks -------------------------- *)
\* the authenticated patron whose requests are followed
Requester == 2

\* serial executions in which the requester, who is no admin, calls update
\* and cancel on every submission and everyone calls start and complete,
\* the staff only on their own submissions; everyone creates
NextPatron ==
    \/ \E u \in Users : create_submission(u, FALSE, FALSE)
    \/ \E sid \in SubIds, large_in \in OptBool, double_in \in OptBool :
           update_submission(Requester, sid, large_in, double_in)
    \/ \E sid \in SubIds : cancel_submission(Requester, sid)
    \/ \E u \in Users, sid \in SubIds :
           /\ sid \in Ids
           /\ role(u) # "patron" => submissions[sid].user_id = u
           /\ start_submission(u, sid)
    \/ \E u \in Users, sid \in SubIds :
           /\ sid \in Ids
           /\ role(u) # "patron" => submissions[sid].user_id = u
           /\ complete_submission(u, sid)

SpecPatron == Init /\ [][NextPatron]_vars

\* C30: a caller who is neither owner nor admin cannot update or cancel a
\* submission and a non-admin cannot start or complete one: such calls change
\* no submission, no balance and no ledger entry.
OwnerOrAdmin ==
    [][/\ \A i \in DOMAIN submissions :
              LET s == submissions[i]
                  t == submissions'[i]
              IN  /\ s.user_id # Requester =>
                         /\ t.status = "cancelled" => s.status = "cancelled"
                         /\ t.is_large_image_set = s.is_large_image_set
                         /\ t.is_double_character = s.is_double_character
                         /\ t.credit_cost = s.credit_cost
                  /\ role(s.user_id) = "patron" =>
                         (t.status \in {"in_progress", "completed"} =>
                              t.status = s.status)
                  /\ (s.user_id # Requester /\ role(s.user_id) = "patron") =>
                         t = s \/ t = [s EXCEPT !.queue_position = t.queue_position]
       /\ \A u \in Users : role(u) = "patron" => credits'[u] = credits[u]
       /\ \A k \in 1..Len(ledger') :
              k > Len(ledger) => role(ledger'[k].user_id) # "patron"]_vars

\* submissions of another patron and of the admin are pending, open to a
\* cancel or a start, after the requester has cancelled an own submission
OwnerOrAdminWitness ==
    \E i \in Ids, j \in Ids, k \in Ids :
        /\ submissions[i].user_id = Requester
        /\ submissions[i].status = "cancelled"
        /\ submissions[j].user_id # Requester
        /\ role(submissions[j].user_id) = "patron"
        /\ submissions[j].status = "pending"
        /\ role(submissions[k].user_id) = "admin"
        /\ submissions[k].status = "pending"

(* ------------------------------- months ------------------------------- *)
\* datetime.utcnow().strftime("%Y-%m") moves on to the next month: the rows
\* of user_vote_allowance and the Votes of the month that ended stay in the
\* database, and no row exists yet for the month that begins
month_rollover ==
    /\ calendar.month = "first"
    /\ calendar' = [month |-> "later", allowance |-> allowance, votes |-> votes]
    /\ allowance' = [u \in Users |-> NoAllowance]
    /\ UNCHANGED <<submissions, credits, ledger, votes, tier, config, pc, loc>>

\* serial executions of the vote handlers over two months
NextMonth ==
    \/ \E u \in FreeUsers : create_submission(u, FALSE, FALSE)
    \/ \E u \in Users, sid \in SubIds : cast_vote(u, sid)
    \/ \E u \in Users, sid \in SubIds : remove_vote(u, sid)
    \/ month_rollover

SpecMonth == Init /\ [][NextMonth]_vars

\* the Votes of user u on the submissions S that were cast in the earlier month
RECURSIVE EarlierVotes(_, _)
EarlierVotes(S, u) ==
    IF S = {}
    THEN 0
    ELSE LET sid == CHOOSE x \in S : TRUE
         IN  calendar.votes[u][sid] + EarlierVotes(S \ {sid}, u)

\* C23: for every user and month, votes_used equals the number of Votes the
\* user holds that were cast in that month, also after a Vote is removed in
\* a later month than it was cast.
VotesUsedMatchesVotes ==
    \A u \in Users :
        /\ calendar.allowance[u].votes_used = EarlierVotes(SubIds, u)
        /\ allowance[u].votes_used = VotesCast(SubIds, u) - EarlierVotes(SubIds, u)

\* C31: the ledger is append-only: every CreditTransaction stays in the ledger
\* with the same owner, amount, type and submission reference in every later
\* state.
LedgerAppendOnly ==
    [][/\ Len(ledger') >= Len(ledger)
       /\ \A k \in 1..Len(ledger) : ledger'[k] = ledger[k]]_vars

\* a charge, an admin adjustment and a refund have been booked one after the
\* other
LedgerAppendOnlyWitness ==
    \E a \in 1..Len(ledger), b \in 1..Len(ledger), c \in 1..Len(ledger) :
        /\ a < b /\ b < c
        /\ ledger[a].transaction_type = "submission_cost"
        /\ ledger[b].transaction_type = "adjustment"
        /\ ledger[c].transaction_type = "refund"

(* ------------------- allowance rows, step by step --------------------- *)
\* values the administrators give to the key tier1_votes_per_month
ConfigValues == {ConfigVotesPerMonth, ConfigVotesPerMonth + 1}

set_config_value(value) ==
    /\ value # config.tier1_votes_per_month
    /\ config' = [config EXCEPT !.tier1_votes_per_month = value]
    /\ UNCHANGED <<submissions, credits, ledger, votes, allowance, tier, pc, loc,
                   calendar>>

\* mutant: user_vote_allowance has no unique constraint
no_unique_month_constraint(al, u) == TRUE

\* UniqueConstraint('user_id', 'month_year') checked when a row is inserted
unique_user_month_allowance(al, u) == al[u].rows = 0

\* GET /vote/allowance, lines 29-35 of get_or_create_vote_allowance: the row
\* of the current month is looked up; a row that is found is returned as it is
get_or_create_query(x, u) ==
    /\ pc[x] = "idle"
    /\ IF allowance[u].exists
       THEN UNCHANGED <<pc, loc>>
       ELSE /\ pc' = [pc EXCEPT ![x] = "allowance_insert"]
            /\ loc' = [loc EXCEPT ![x] = [IdleLoc EXCEPT !.op = "allowance",
                                                         !.user = u]]
    /\ UNCHANGED <<submissions, credits, ledger, votes, allowance, tier, calendar,
                   config>>

\* lines 37-49: the configured value is read and the new row is committed; the
\* commit fails when a row of the user and month was inserted in between
get_or_create_insert(x) ==
    /\ pc[x] = "allowance_insert"
    /\ LET u == loc[x].user
       IN  IF unique_user_month_allowance(allowance, u)
           THEN allowance' = [allowance EXCEPT ![u] =
                    IF @.exists
                    THEN [@ EXCEPT !.rows = @ + 1]
                    ELSE [exists |-> TRUE,
                          votes_available |-> config.tier1_votes_per_month,
                          votes_used |-> 0,
                          rows |-> 1]]
           ELSE UNCHANGED allowance
    /\ pc' = [pc EXCEPT ![x] = "idle"]
    /\ loc' = [loc EXCEPT ![x] = IdleLoc]
    /\ UNCHANGED <<submissions, credits, ledger, votes, tier, calendar, config>>

\* requests for the allowance of two sessions, step by step, next to serial
\* votes and changes of the configuration
NextAllowance ==
    \/ \E u \in FreeUsers : create_submission(u, FALSE, FALSE)
    \/ \E u \in Users, sid \in SubIds : cast_vote(u, sid)
    \/ \E u \in Users, sid \in SubIds : remove_vote(u, sid)
    \/ \E x \in Sessions, u \in Users : get_or_create_query(x, u)
    \/ \E x \in Sessions : get_or_create_insert(x)
    \/ \E value \in ConfigValues : set_config_value(value)

SpecAllowance == Init /\ [][NextAllowance]_vars

VotesUsedNonNegative ==
    \A u \in Users :
        /\ allowance[u].votes_used >= 0
        /\ calendar.allowance[u].votes_used >= 0

\* a vote cast in the earlier month was removed in the later month: the
\* release met the later month's row at votes_used = 0
VotesUsedNonNegativeWitness ==
    \E u \in Users :
        /\ calendar.month = "later"
        /\ calendar.allowance[u].votes_used = 1
        /\ VotesCast(SubIds, u) = 0
        /\ allowance[u].exists
        /\ allowance[u].votes_used = 0

\* sum of the amounts of the entries of ledger l of the given type that
\* reference submission sid
RECURSIVE AmountFor(_, _, _)
AmountFor(l, type, sid) ==
    IF l = <<>>
    THEN 0
    ELSE (IF Head(l).transaction_type = type /\ Head(l).submission_id = sid
          THEN Head(l).amount
          ELSE 0) + AmountFor(Tail(l), type, sid)

\* C34: for every submission the refunds that reference it never exceed what
\* was charged for it; a submission that was never charged is never refunded.
RefundsWithinCharges ==
    \A i \in SubIds :
        AmountFor(ledger, "refund", i) <= -AmountFor(ledger, "submission_cost", i)

\* C35: when two cancels of the same submission run concurrently, at most one
\* refund entry is booked for it.
OneRefundPerCancel ==
    \A i \in SubIds : Cardinality(Refunds(ledger, i)) <= 1

(* ------------------- charges of concurrent requests ------------------- *)
\* mutant: a charge is accepted whatever the balance
enough_credits_unchecked(balance, cost) == TRUE

\* `if user.credits < credit_diff: raise` of update_submission
enough_credits(balance, cost) == balance >= cost

\* requests that have passed the checks of update_submission and not yet
\* booked their charge
ChargesInFlight == Cardinality({x \in Sessions : pc[x] = "update_charge"})

\* update_submission lines 193-237: the checks, on the rows the session loaded
update_submission_load(x, u, sid, large_in, double_in) ==
    /\ pc[x] = "idle"
    /\ Len(ledger) + ChargesInFlight < MaxChargeLedger
    /\ get_submission_by_id(sid)
    /\ LET s == submissions[sid]
           large == new_flag(s.is_large_image_set, large_in)
           double == new_flag(s.is_double_character, double_in)
           new_cost == total_cost(large, double)
           credit_diff == new_cost - s.credit_cost
           charged == tier[u] > 1 /\ credit_diff # 0
       IN  /\ s.user_id = u \/ is_admin(u)
           /\ can_edit(s)
           /\ (charged /\ credit_diff > 0) => enough_credits(credits[u], credit_diff)
           /\ loc' = [loc EXCEPT ![x] = [op |-> "update", user |-> u, sid |-> sid,
                                         credits |-> credits[u], charged |-> charged,
                                         large |-> large, double |-> double,
                                         new_cost |-> new_cost,
                                         credit_diff |-> credit_diff]]
           /\ pc' = [pc EXCEPT ![x] = IF charged THEN "update_charge"
                                                 ELSE "update_commit"]
    /\ UNCHANGED <<submissions, credits, ledger, votes, allowance, tier, calendar,
                   config>>

\* update_submission lines 238-254: the balance is written from the value the
\* session loaded; the db.commit() inside spend_credits / add_credits commits
\* it together with the flags and the ledger entry
update_submission_charge(x) ==
    LET u == loc[x].user
        sid == loc[x].sid
        credit_diff == loc[x].credit_diff
    IN  /\ pc[x] = "update_charge"
        /\ submissions' = [submissions EXCEPT
                              ![sid].is_large_image_set = loc[x].large,
                              ![sid].is_double_character = loc[x].double]
        /\ IF credit_diff > 0
           THEN /\ credits' = [credits EXCEPT ![u] = loc[x].credits - credit_diff]
                /\ ledger' = spend_credits(ledger, u, credit_diff,
                                           "submission_cost", sid)
           ELSE /\ credits' = [credits EXCEPT
                                  ![u] = Min(loc[x].credits - credit_diff,
                                             max_credits(u))]
                /\ ledger' = refund_credits(ledger, u, -credit_diff, sid)
        /\ pc' = [pc EXCEPT ![x] = "update_commit"]
        /\ UNCHANGED <<votes, allowance, tier, calendar, config, loc>>

\* update_submission lines 256-270: the last commit
update_submission_commit(x) ==
    LET sid == loc[x].sid
    IN  /\ pc[x] = "update_commit"
        /\ submissions' = [submissions EXCEPT
                              ![sid].is_large_image_set = loc[x].large,
                              ![sid].is_double_character = loc[x].double,
                              ![sid].credit_cost = IF loc[x].charged
                                                   THEN loc[x].new_cost ELSE @]
        /\ pc' = [pc EXCEPT ![x] = "idle"]
        /\ loc' = [loc EXCEPT ![x] = IdleLoc]
        /\ UNCHANGED <<credits, ledger, votes, allowance, tier, calendar, config>>

\* creates and updates of a paid-lane user over MaxSessions sessions, commit
\* by commit, next to admin adjustments
NextCharge ==
    \/ \E x \in Sessions, u \in PaidUsers : create_submission_load(x, u)
    \/ \E x \in Sessions : create_submission_commit(x)
    \/ \E x \in Sessions, u \in PaidUsers, sid \in SubIds,
          large_in \in OptBool, double_in \in OptBool :
           update_submission_load(x, u, sid, large_in, double_in)
    \/ \E x \in Sessions : update_submission_charge(x)
    \/ \E x \in Sessions : update_submission_commit(x)
    \/ \E a \in Users, u \in PaidUsers, amount \in Amounts :
           adjust_user_credits(a, u, amount)

SpecCharge == Init /\ [][NextCharge]_vars

\* C36: the balance of every user is at least 0 in every reachable state, also
\* when creates and updates of one paid-lane user overlap.
BalanceNonNegative == \A u \in Users : credits[u] >= 0

\* overlapping requests of one user have been charged: with no refund and no
\* adjustment in the ledger, the charges of the user exceed the credits ever
\* granted while the balance is 0
BalanceNonNegativeWitness ==
    \E u \in Users :
        /\ AllIdle
        /\ credits[u] = 0
        /\ SumAmounts(ledger, u) < 0
        /\ \A k \in 1..Len(ledger) :
               ledger[k].transaction_type \in {"monthly_refresh", "submission_cost"}

\* C37: while a paid-lane submission stays pending, no step increases its
\* queue_position.
NoOvertaking ==
    [][\A i \in DOMAIN submissions :
          (/\ submissions[i].queue_type = "paid"
           /\ submissions[i].status = "pending"
           /\ submissions'[i].status = "pending") =>
              submissions'[i].queue_position <= submissions[i].queue_position]_vars

\* a pending paid-lane submission has moved up to position 1 after an older
\* one left the lane, and a younger one stands behind it at position 2
NoOvertakingWitness ==
    \E i \in Ids, j \in Ids, k \in Ids :
        /\ j < i /\ i < k
        /\ \A m \in {i, j, k} : submissions[m].queue_type = "paid"
        /\ submissions[j].status \in {"cancelled", "completed"}
        /\ submissions[i].status = "pending"
        /\ submissions[i].queue_position = 1
        /\ submissions[k].status = "pending"
        /\ submissions[k].queue_position = 2
====
